---- MODULE Spec2Model ----
(***************************************************************************)
(* Model of app.py: a Streamlit page listing election candidates, with a   *)
(* per-candidate profile page, four reaction counters kept in SQLite and a *)
(* cookie that limits a browser to one reaction per candidate.             *)
(*                                                                         *)
(* Every browser tab is a Streamlit session whose script runs (main) are   *)
(* executed by the server concurrently with those of the other tabs.  A    *)
(* script run is split at its accesses to shared state: the SQLite         *)
(* transactions (each atomic) and the accesses to the browser's cookies.   *)
(***************************************************************************)
EXTENDS Integers, Sequences, FiniteSets, TLC

None == "None"

\* ---------------------------------------------------------------- bounds
\* user actions (page loads and clicks) in a behaviour
MaxActions == 4
\* length of a filter text
MaxLen == 2

\* ------------------------------------------------------------- constants
\* two browser tabs (Streamlit sessions); they belong to one browser or to
\* two, see Init
Tabs == {"tab1", "tab2"}
Browsers == {"b1", "b2"}

REACTIONS == <<"love", "like", "support", "innovative">>
ReactionTypes == {REACTIONS[i] : i \in 1..Len(REACTIONS)}
\* the buttons the users of the model click
ClickedReactions == {"love", "like"}

\* rows the candidates file can hold (the example table of the spec)
Candidates ==
  [ A1 |-> [id |-> <<"A","1">>, name |-> <<"A","l","i">>,
            building |-> <<"5">>, floor |-> <<"2">>, apt |-> <<"3">>],
    B2 |-> [id |-> <<"B","2">>, name |-> <<"S","a","r","a">>,
            building |-> <<"6">>, floor |-> <<"1">>, apt |-> <<"4">>] ]
Ids == DOMAIN Candidates

VARIABLES
  browserOf,  \* the browser each tab belongs to
  csv,        \* ids of the rows of data/candidates.csv
  db,         \* table reactions: (candidate_id, react_type) -> count
  cookie,     \* cookie[b][c]: value of cookie reacted_<c> in browser b
  pc,         \* position of the tab's script run
  qp,         \* st.query_params of the tab: [view, id]
  df,         \* candidates loaded by the tab's current run
  pending,    \* the widget whose click triggered the current run
  counts,     \* profile_view: local counts
  filters,    \* list_view: contents of the four text inputs
  page,       \* what the tab shows
  voted,      \* history: votes accepted per (candidate, type)
  startCookie,\* history: cookie of the profile's candidate when the run began
  lastAction, \* history: the last thing the user did in the tab
  lastVote,   \* history: the vote the tab committed since the last user action
  nacts       \* number of user actions so far

vars == <<browserOf, csv, db, cookie, pc, qp, df, pending, counts, filters, page,
          voted, startCookie, lastAction, lastVote, nacts>>

\* ------------------------------------------------------------ DB helpers
Keys(ids) == ids \X ReactionTypes

\* bootstrap_reactions with INSERT OR REPLACE
bootstrap_reactions_replace(d, candidate_ids) ==
  [k \in DOMAIN d \cup Keys(candidate_ids) |->
      IF k \in Keys(candidate_ids) THEN 0 ELSE d[k]]

\* INSERT OR IGNORE ... VALUES (?, ?, 0) for every candidate and reaction
bootstrap_reactions(d, candidate_ids) ==
  [k \in DOMAIN d \cup Keys(candidate_ids) |->
      IF k \in DOMAIN d THEN d[k] ELSE 0]

\* get_reaction_counts that skips the rows nobody voted for
get_reaction_counts_nonzero(d, candidate_id) ==
  [rt \in {t \in ReactionTypes : /\ <<candidate_id, t>> \in DOMAIN d
                                  /\ d[<<candidate_id, t>>] > 0} |->
      d[<<candidate_id, rt>>]]

\* SELECT react_type, count FROM reactions WHERE candidate_id = ?
get_reaction_counts(d, candidate_id) ==
  [rt \in {t \in ReactionTypes : <<candidate_id, t>> \in DOMAIN d} |->
      d[<<candidate_id, rt>>]]

\* UpdateCount whose WHERE clause lacks the react_type
UpdateCountAnyType(d, candidate_id, rkey) ==
  [k \in DOMAIN d |-> IF k[1] = candidate_id THEN d[k] + 1 ELSE d[k]]

\* UPDATE reactions SET count = count + 1
\*   WHERE candidate_id = ? AND react_type = ?
UpdateCount(d, candidate_id, rkey) ==
  [k \in DOMAIN d |->
      IF k = <<candidate_id, rkey>> THEN d[k] + 1 ELSE d[k]]

\* counts.get(rkey, 0) for the four button labels
Labels(cnt) ==
  [rt \in ReactionTypes |-> IF rt \in DOMAIN cnt THEN cnt[rt] ELSE 0]

\* --------------------------------------------------------------- cookies
set_reacted_cookie(ck, b, candidate_id, value) ==
  [ck EXCEPT ![b][candidate_id] = value]

get_reacted_cookie(ck, b, candidate_id) == ck[b][candidate_id]

\* ------------------------------------------------------ texts and filters
\* str.lower() on the characters the model uses
LowerChar(ch) ==
  CASE ch = "A" -> "a" [] ch = "B" -> "b" [] ch = "S" -> "s" [] OTHER -> ch
Lower(str) == [i \in 1..Len(str) |-> LowerChar(str[i])]

\* str.strip()
RECURSIVE LStrip(_)
LStrip(str) ==
  IF str # <<>> /\ Head(str) = " " THEN LStrip(Tail(str)) ELSE str
RECURSIVE RStrip(_)
RStrip(str) ==
  IF str # <<>> /\ str[Len(str)] = " "
    THEN RStrip(SubSeq(str, 1, Len(str) - 1)) ELSE str
Strip(str) == RStrip(LStrip(str))

\* needle in hay
Contains(hay, needle) ==
  \E i \in 0..(Len(hay) - Len(needle)) :
     \A j \in 1..Len(needle) : hay[i + j] = needle[j]

\* re.compile(pat) raises: of the model's characters only an unclosed "("
BadPattern(pat) == \E j \in 1..Len(pat) : pat[j] = "("

\* re.search(pat, text, re.IGNORECASE) for a pattern of literal characters
\* and "." (any character)
RegexSearch(pat, text) ==
  \E i \in 0..(Len(text) - Len(pat)) :
     \A j \in 1..Len(pat) :
        pat[j] = "." \/ LowerChar(pat[j]) = LowerChar(text[i + j])

\* Series.str.contains(pat, case=False, na=False): regex=True is the default
StrContains(text, pat) == RegexSearch(pat, text)

\* list_view: the rows left in fdf after the four filters
FilterRows(rows, f) ==
  LET q == Strip(f.q)
      f_building == Strip(f.building)
      f_floor == Strip(f.floor)
      f_apt == Strip(f.apt)
  IN {c \in rows :
        /\ q # <<>> =>
             Contains(Lower(Candidates[c].name \o Candidates[c].id), Lower(q))
        /\ f_building # <<>> => StrContains(Candidates[c].building, f_building)
        /\ f_floor # <<>> => StrContains(Candidates[c].floor, f_floor)
        /\ f_apt # <<>> => StrContains(Candidates[c].apt, f_apt)}

\* list_view: str.contains raises re.error for a filter that is no regex
FilterRaises(f) ==
  \/ BadPattern(Strip(f.building))
  \/ BadPattern(Strip(f.floor))
  \/ BadPattern(Strip(f.apt))

\* ------------------------------------------------------------ page state
\* the run was started by no click: a page load, an edited input or st.rerun
NoPending == [kind |-> "none", arg |-> None]
NoAction == [kind |-> "none", arg |-> None, prev |-> "none"]
NoFilters == [q |-> <<>>, building |-> <<>>, floor |-> <<>>, apt |-> <<>>]
NoCounts == [rt \in {} |-> 0]
NoParams == [view |-> None, id |-> None]
NoVote == [cid |-> None, rkey |-> None, n |-> 0]

\* a tab in which no page has been loaded yet
BlankPage == [kind |-> "blank", warning |-> FALSE, cards |-> {}, cid |-> None,
              labels |-> NoCounts, disabled |-> FALSE, back |-> FALSE]

\* list_view: one card per row of fdf, or the "no matches" info when fdf is
\* empty; an uncaught re.error ends the run with the exception on the page
ListPage(cards, warning) ==
  [kind |-> "list", warning |-> warning, cards |-> cards, cid |-> None,
   labels |-> NoCounts, disabled |-> FALSE, back |-> FALSE]
ExceptionPage(warning) ==
  [kind |-> "exception", warning |-> warning, cards |-> {}, cid |-> None,
   labels |-> NoCounts, disabled |-> FALSE, back |-> FALSE]
list_view(rows, f, warning) ==
  IF FilterRaises(f) THEN ExceptionPage(warning)
  ELSE ListPage(FilterRows(rows, f), warning)

\* profile_view, match.empty: st.error and the "back to list" button
NotFoundPage ==
  [kind |-> "notfound", warning |-> FALSE, cards |-> {}, cid |-> None,
   labels |-> NoCounts, disabled |-> FALSE, back |-> TRUE]

\* profile_view: back buttons, four reaction buttons labelled with the counts
ProfilePage(cid, cnt, disabled) ==
  [kind |-> "profile", warning |-> FALSE, cards |-> {}, cid |-> cid,
   labels |-> Labels(cnt), disabled |-> disabled, back |-> TRUE]

\* URLs a user types: the bare page, or a profile link with any id parameter
IdParams == Ids \cup {None, ""}
Urls == {NoParams, [view |-> "list", id |-> None]}
          \cup {[view |-> "profile", id |-> i] : i \in IdParams}

\* RoutesToProfile with "candidate_id is None" for "not candidate_id"
RoutesToProfileIsNone(q) == q.view = "profile" /\ q.id # None

\* main: qp.get("view", "list") == "profile" and a non-empty id
RoutesToProfile(q) == q.view = "profile" /\ q.id \notin {None, ""}

\* history: the cookie the run's profile candidate has when the run begins
CookieAtStart(ck, s, q) ==
  IF RoutesToProfile(q) /\ q.id \in Ids
    THEN ck[browserOf[s]][q.id]
    ELSE None

Init ==
  /\ browserOf \in {[tab1 |-> "b1", tab2 |-> "b1"], [tab1 |-> "b1", tab2 |-> "b2"]}
  /\ csv = {"A1"}
  /\ db = [k \in {} |-> 0]
  /\ cookie = [b \in Browsers |-> [c \in Ids |-> None]]
  /\ pc = [s \in Tabs |-> "idle"]
  /\ qp = [s \in Tabs |-> NoParams]
  /\ df = [s \in Tabs |-> {}]
  /\ pending = [s \in Tabs |-> NoPending]
  /\ counts = [s \in Tabs |-> NoCounts]
  /\ filters = [s \in Tabs |-> NoFilters]
  /\ page = [s \in Tabs |-> BlankPage]
  /\ voted = [k \in Keys(Ids) |-> 0]
  /\ startCookie = [s \in Tabs |-> None]
  /\ lastAction = [s \in Tabs |-> NoAction]
  /\ lastVote = [s \in Tabs |-> NoVote]
  /\ nacts = 0

\* -------------------------------------------------- the user's actions
\* every user action starts one script run of the tab (main)
StartRun(s, q, widget, act) ==
  /\ pc[s] = "idle"
  /\ nacts < MaxActions
  /\ nacts' = nacts + 1
  /\ pc' = [pc EXCEPT ![s] = "main"]
  /\ qp' = [qp EXCEPT ![s] = q]
  /\ pending' = [pending EXCEPT ![s] = widget]
  /\ startCookie' = [startCookie EXCEPT ![s] = CookieAtStart(cookie, s, q)]
  /\ lastAction' = [lastAction EXCEPT ![s] =
        [kind |-> act, arg |-> widget.arg, prev |-> lastAction[s].kind]]
  /\ lastVote' = [lastVote EXCEPT ![s] = NoVote]
  /\ UNCHANGED <<browserOf, csv, db, cookie, df, counts, page, voted>>

\* the user opens a URL in the tab: a new session, no widget state
Navigate(s, u) ==
  /\ StartRun(s, u, NoPending, "url")
  /\ filters' = [filters EXCEPT ![s] = NoFilters]

\* the user clicks a card's "view program" button
ClickOpen(s, a) ==
  /\ a \in page[s].cards
  /\ StartRun(s, qp[s], [kind |-> "open", arg |-> a], "open")
  /\ UNCHANGED filters

\* the user clicks a back button (profile page or not-found page)
ClickBack(s) ==
  /\ page[s].back
  /\ StartRun(s, qp[s], [kind |-> "back", arg |-> page[s].kind], "back")
  /\ UNCHANGED filters

\* the user clicks a reaction button; the browser lets only enabled ones click
ClickReact(s, rkey) ==
  /\ page[s].kind = "profile"
  /\ ~page[s].disabled
  /\ StartRun(s, qp[s], [kind |-> "react", arg |-> rkey], "react")
  /\ UNCHANGED filters

\* the user edits one of the four text inputs of the list view
EditFilter(s, field, text) ==
  /\ pc[s] = "idle"
  /\ page[s].kind \in {"list", "exception"}
  /\ filters[s][field] # text
  /\ filters' = [filters EXCEPT ![s][field] = text]
  /\ pc' = [pc EXCEPT ![s] = "main"]
  /\ lastAction' = [lastAction EXCEPT ![s] =
        [kind |-> "filter", arg |-> None, prev |-> lastAction[s].kind]]
  /\ UNCHANGED <<browserOf, csv, db, cookie, qp, df, pending, counts, page,
                 voted, startCookie, lastVote, nacts>>

\* the deployment adds a row to data/candidates.csv
EditCsv(a) ==
  /\ a \notin csv
  /\ csv' = csv \cup {a}
  /\ UNCHANGED <<browserOf, db, cookie, pc, qp, df, pending, counts, filters,
                 page, voted, startCookie, lastAction, lastVote, nacts>>

\* ------------------------------------------------------ the script run
\* st.query_params.update({"view": "profile", "id": cand_row["id"]})
OpenParams(q, a) == [q EXCEPT !.view = "profile", !.id = a]

\* ClearParams that deletes the view parameter only
ClearViewOnly(q) == [q EXCEPT !.view = None]

\* st.query_params.clear()
ClearParams(q) == NoParams

\* disabled = reacted_value is not None
Disabled(reacted_value) == reacted_value # None

\* VoteAccepted that ignores reacted_value
VoteAlwaysAccepted(reacted_value) == TRUE

\* if reacted_value is None: (under the clicked button)
VoteAccepted(reacted_value) == reacted_value = None

\* st.rerun(): the run ends here and the script starts again from main
Rerun(s, q, ck) ==
  /\ pc' = [pc EXCEPT ![s] = "main"]
  /\ qp' = [qp EXCEPT ![s] = q]
  /\ pending' = [pending EXCEPT ![s] = NoPending]
  /\ df' = [df EXCEPT ![s] = {}]
  /\ counts' = [counts EXCEPT ![s] = NoCounts]
  /\ startCookie' = [startCookie EXCEPT ![s] = CookieAtStart(ck, s, q)]

\* the run reaches its end: the tab shows the page and waits for the user
Show(s, p) ==
  /\ pc' = [pc EXCEPT ![s] = "idle"]
  /\ page' = [page EXCEPT ![s] = p]
  /\ pending' = [pending EXCEPT ![s] = NoPending]
  /\ df' = [df EXCEPT ![s] = {}]
  /\ counts' = [counts EXCEPT ![s] = NoCounts]

\* main: df = load_candidates(); bootstrap_reactions(get_conn(), ids), one
\* transaction
LoadAndBootstrap(s) ==
  /\ pc[s] = "main"
  /\ df' = [df EXCEPT ![s] = csv]
  /\ db' = bootstrap_reactions(db, csv)
  /\ pc' = [pc EXCEPT ![s] = "route"]
  /\ UNCHANGED <<browserOf, csv, cookie, qp, pending, counts, filters, page,
                 voted, startCookie, lastAction, lastVote, nacts>>

\* main routes to list_view (with the warning when view=profile has no id);
\* candidate_card's clicked button moves to the profile
RenderList(s) ==
  /\ pc[s] = "route"
  /\ ~RoutesToProfile(qp[s])
  /\ IF pending[s].kind = "open"
       THEN /\ Rerun(s, OpenParams(qp[s], pending[s].arg), cookie)
            /\ UNCHANGED page
       ELSE /\ Show(s, list_view(df[s], filters[s], qp[s].view = "profile"))
            /\ UNCHANGED <<qp, startCookie>>
  /\ UNCHANGED <<browserOf, csv, db, cookie, filters, voted, lastAction, lastVote, nacts>>

\* profile_view when no row has the id: error and a back button
RenderNotFound(s) ==
  /\ pc[s] = "route"
  /\ RoutesToProfile(qp[s])
  /\ qp[s].id \notin df[s]
  /\ IF pending[s] = [kind |-> "back", arg |-> "notfound"]
       THEN /\ Rerun(s, ClearParams(qp[s]), cookie)
            /\ UNCHANGED page
       ELSE /\ Show(s, NotFoundPage)
            /\ UNCHANGED <<qp, startCookie>>
  /\ UNCHANGED <<browserOf, csv, db, cookie, filters, voted, lastAction, lastVote, nacts>>

\* profile_view of a known candidate, up to counts = get_reaction_counts(...)
RenderProfile(s) ==
  /\ pc[s] = "route"
  /\ RoutesToProfile(qp[s])
  /\ qp[s].id \in df[s]
  /\ IF pending[s] = [kind |-> "back", arg |-> "profile"]
       THEN /\ Rerun(s, ClearParams(qp[s]), cookie)
            /\ UNCHANGED page
       ELSE /\ counts' = [counts EXCEPT ![s] = get_reaction_counts(db, qp[s].id)]
            /\ pc' = [pc EXCEPT ![s] = "buttons"]
            /\ UNCHANGED <<qp, df, pending, page, startCookie>>
  /\ UNCHANGED <<browserOf, csv, db, cookie, filters, voted, lastAction, lastVote, nacts>>

\* profile_view: reacted_value = get_reacted_cookie(...), the four buttons, and
\* the rest of the page when no vote is taken
ReactionButtons(s) ==
  LET rv == get_reacted_cookie(cookie, browserOf[s], qp[s].id) IN
  /\ pc[s] = "buttons"
  /\ IF pending[s].kind = "react" /\ VoteAccepted(rv)
       THEN /\ pc' = [pc EXCEPT ![s] = "update"]
            /\ voted' = [voted EXCEPT ![<<qp[s].id, pending[s].arg>>] = @ + 1]
            /\ UNCHANGED <<page, pending, df, counts>>
       ELSE /\ Show(s, ProfilePage(qp[s].id, counts[s], Disabled(rv)))
            /\ UNCHANGED voted
  /\ UNCHANGED <<browserOf, csv, db, cookie, qp, filters, startCookie, lastAction,
                 lastVote, nacts>>

\* CommitVote as a read-modify-write of the count the page read
CommitVoteReadModifyWrite(s) ==
  /\ pc[s] = "update"
  /\ db' = [k \in DOMAIN db |->
              IF k = <<qp[s].id, pending[s].arg>>
                THEN Labels(counts[s])[pending[s].arg] + 1 ELSE db[k]]
  /\ pc' = [pc EXCEPT ![s] = "setcookie"]
  /\ lastVote' = [lastVote EXCEPT ![s] =
        [cid |-> qp[s].id, rkey |-> pending[s].arg,
         n |-> Labels(get_reaction_counts(db', qp[s].id))[pending[s].arg]]]
  /\ UNCHANGED <<browserOf, csv, cookie, qp, df, pending, counts, filters, page,
                 voted, startCookie, lastAction, nacts>>

\* CommitVote without conn.commit(): the UPDATE is rolled back
CommitVoteNoCommit(s) ==
  /\ pc[s] = "update"
  /\ db' = db
  /\ pc' = [pc EXCEPT ![s] = "setcookie"]
  /\ lastVote' = [lastVote EXCEPT ![s] =
        [cid |-> qp[s].id, rkey |-> pending[s].arg,
         n |-> Labels(get_reaction_counts(db, qp[s].id))[pending[s].arg] + 1]]
  /\ UNCHANGED <<browserOf, csv, cookie, qp, df, pending, counts, filters, page,
                 voted, startCookie, lastAction, nacts>>

\* cur.execute("UPDATE ... count = count + 1 ..."); conn.commit()
CommitVote(s) ==
  /\ pc[s] = "update"
  /\ db' = UpdateCount(db, qp[s].id, pending[s].arg)
  /\ pc' = [pc EXCEPT ![s] = "setcookie"]
  /\ lastVote' = [lastVote EXCEPT ![s] =
        [cid |-> qp[s].id, rkey |-> pending[s].arg,
         n |-> Labels(get_reaction_counts(db', qp[s].id))[pending[s].arg]]]
  /\ UNCHANGED <<browserOf, csv, cookie, qp, df, pending, counts, filters, page,
                 voted, startCookie, lastAction, nacts>>

\* set_reacted_cookie(cand["id"], rkey); st.rerun()
SetCookie(s) ==
  /\ pc[s] = "setcookie"
  /\ cookie' = set_reacted_cookie(cookie, browserOf[s], qp[s].id, pending[s].arg)
  /\ Rerun(s, qp[s], cookie')
  /\ UNCHANGED <<browserOf, csv, db, filters, page, voted, lastAction, lastVote, nacts>>

Next ==
  \/ \E s \in Tabs, u \in Urls : Navigate(s, u)
  \/ \E s \in Tabs, a \in Ids : ClickOpen(s, a)
  \/ \E s \in Tabs : ClickBack(s)
  \/ \E s \in Tabs, rkey \in ClickedReactions : ClickReact(s, rkey)
  \/ \E a \in Ids : EditCsv(a)
  \/ \E s \in Tabs : LoadAndBootstrap(s)
  \/ \E s \in Tabs : RenderList(s)
  \/ \E s \in Tabs : RenderNotFound(s)
  \/ \E s \in Tabs : RenderProfile(s)
  \/ \E s \in Tabs : ReactionButtons(s)
  \/ \E s \in Tabs : CommitVote(s)
  \/ \E s \in Tabs : SetCookie(s)

Spec == Init /\ [][Next]_vars

\* ---- the list view alone: one tab on the list page, the user edits filters
Texts(chars) == UNION {[1..n -> chars] : n \in 0..MaxLen}
FilterInputs ==
  [q |-> Texts({"s", "A", " "}), building |-> Texts({"5", ".", "("}),
   floor |-> Texts({"2", "."}), apt |-> Texts({"3", " "})]

InitFilter ==
  /\ browserOf = [tab1 |-> "b1", tab2 |-> "b2"]
  /\ csv = Ids
  /\ db = bootstrap_reactions([k \in {} |-> 0], Ids)
  /\ cookie = [b \in Browsers |-> [c \in Ids |-> None]]
  /\ pc = [s \in Tabs |-> "idle"]
  /\ qp = [s \in Tabs |-> NoParams]
  /\ df = [s \in Tabs |-> {}]
  /\ pending = [s \in Tabs |-> NoPending]
  /\ counts = [s \in Tabs |-> NoCounts]
  /\ filters = [s \in Tabs |-> NoFilters]
  /\ page = [s \in Tabs |->
               IF s = "tab1" THEN list_view(Ids, NoFilters, FALSE) ELSE BlankPage]
  /\ voted = [k \in Keys(Ids) |-> 0]
  /\ startCookie = [s \in Tabs |-> None]
  /\ lastAction = [s \in Tabs |-> NoAction]
  /\ lastVote = [s \in Tabs |-> NoVote]
  /\ nacts = 0

NextFilter ==
  \/ \E field \in DOMAIN FilterInputs :
        \E text \in FilterInputs[field] : EditFilter("tab1", field, text)
  \/ LoadAndBootstrap("tab1")
  \/ RenderList("tab1")

SpecFilter == InitFilter /\ [][NextFilter]_vars

\* ================================================================ claims
\* stored count of a (candidate, type) pair; a missing row shows as 0
Count(k) == IF k \in DOMAIN db THEN db[k] ELSE 0

\* the pair the tab's accepted vote is for
VoteKey(s) == <<qp[s].id, pending[s].arg>>

\* tabs whose accepted vote has not executed its UPDATE yet
InFlight(k) == {s \in Tabs : pc[s] = "update" /\ VoteKey(s) = k}

\* the tab's run is past bootstrap_reactions
Bootstrapped(s) == pc[s] \in {"route", "buttons", "update", "setcookie"}

\* C1: concurrent accepted votes for one (candidate, type) pair lose no
\* increment: in every interleaving the stored count is the number of accepted
\* votes minus those whose UPDATE is still to run, so it ends at initial + N.
C1_NoLostUpdate ==
  \A k \in Keys(Ids) : Count(k) + Cardinality(InFlight(k)) = voted[k]

\* two tabs of different browsers voted for the same pair at the same time
\* and both increments are stored
C1_Witness ==
  /\ browserOf["tab1"] # browserOf["tab2"]
  /\ \A s \in Tabs : pc[s] = "setcookie" /\ VoteKey(s) = <<"A1", "love">>
  /\ Count(<<"A1", "love">>) = 2

\* sum of f over the finite set S
RECURSIVE SumOver(_, _)
SumOver(S, f) ==
  IF S = {} THEN 0
  ELSE LET x == CHOOSE y \in S : TRUE IN f[x] + SumOver(S \ {x}, f)

\* all stored counts add up to the accepted votes whose UPDATE has run
CountsAddUp ==
  SumOver(DOMAIN db, db) + Cardinality({s \in Tabs : pc[s] = "update"})
    = SumOver(Keys(Ids), voted)

\* the effect of one step on the stored counts
C10_StepEffect ==
  \A k \in Keys(Ids) :
    LET committing == {s \in Tabs : /\ pc[s] = "update"
                                    /\ pc'[s] = "setcookie"
                                    /\ VoteKey(s) = k}
    IN /\ Count(k)' = Count(k) + Cardinality(committing)
       /\ committing # {} => k \in DOMAIN db
       /\ k \in DOMAIN db => k \in DOMAIN db'

\* C10: a step changes a count only when it is the UPDATE of an accepted
\* vote, which raises the count of its own pair by exactly 1 (the row exists)
\* and leaves every other pair unchanged; no step lowers or resets a count,
\* and the counts add up to the accepted votes whose UPDATE has run.
C10_ExactlyOneIncrement == [][C10_StepEffect]_vars /\ []CountsAddUp

\* one browser's vote and another's, for two types of the same candidate, are
\* both stored and every tab is at rest
C10_Witness ==
  /\ \A s \in Tabs : pc[s] = "idle"
  /\ Count(<<"A1", "love">>) = 1
  /\ Count(<<"A1", "like">>) = 1
  /\ Count(<<"A1", "support">>) = 0

\* the effect on the table of a step that runs bootstrap_reactions
C4_BootstrapStep ==
  \A s \in Tabs :
    (pc[s] = "main" /\ pc'[s] = "route") =>
       /\ \A k \in DOMAIN db : k \in DOMAIN db' /\ db'[k] = db[k]
       /\ \A k \in DOMAIN db' \ DOMAIN db : db'[k] = 0 /\ k \in Keys(df'[s])
       /\ Keys(df'[s]) \subseteq DOMAIN db'

\* C4: bootstrap_reactions keeps every existing row with its count, adds only
\* rows that were absent, each with count 0, and leaves a row for every pair of
\* the loaded candidates, whatever votes were cast before the call.
C4_BootstrapIdempotent == [][C4_BootstrapStep]_vars

\* tab1 voted, then loaded a page again when the file held both candidates:
\* bootstrap_reactions has just run over the larger set with a count at 1
C4_Witness ==
  /\ lastAction["tab2"] = NoAction
  /\ pc["tab1"] = "route"
  /\ df["tab1"] = Ids
  /\ lastAction["tab1"].prev = "react"
  /\ Count(<<"A1", "love">>) = 1
  /\ <<"B2", "love">> \in DOMAIN db

\* C5: once a run has bootstrapped its loaded candidates, get_reaction_counts
\* of each of them has exactly the four reaction types as keys, each count
\* >= 0, and so has the mapping profile_view reads.
C5_FourCounts ==
  \A s \in Tabs :
    /\ Bootstrapped(s) =>
         \A c \in df[s] :
            /\ DOMAIN get_reaction_counts(db, c) = ReactionTypes
            /\ \A t \in ReactionTypes : get_reaction_counts(db, c)[t] >= 0
    /\ pc[s] \in {"buttons", "update"} =>
         /\ DOMAIN counts[s] = ReactionTypes
         /\ \A t \in ReactionTypes : counts[s][t] >= 0

\* profile_view has read the counts of a candidate with one vote
C5_Witness ==
  \E s \in Tabs :
    /\ pc[s] = "buttons"
    /\ DOMAIN counts[s] = ReactionTypes
    /\ counts[s]["love"] = 1
    /\ counts[s]["innovative"] = 0

\* C2: a run that begins when the browser's cookie for the profile's candidate
\* is already set never accepts a vote: whatever button was clicked, it does
\* not reach the UPDATE, and the page it renders has the buttons disabled.
C2_OneVoteLimiter ==
  \A s \in Tabs :
    startCookie[s] # None =>
      /\ pc[s] \notin {"update", "setcookie"}
      /\ (pc[s] = "idle" /\ page[s].kind = "profile") => page[s].disabled

\* a tab whose page was rendered before the browser voted clicked a button
\* afterwards: the click left the single vote of the browser as it was
C2_Witness ==
  \E s \in Tabs :
    /\ pc[s] = "idle"
    /\ lastAction[s].kind = "react"
    /\ startCookie[s] # None
    /\ startCookie[s] # lastAction[s].arg
    /\ lastVote[s] = NoVote
    /\ page[s].disabled
    /\ voted[<<"A1", startCookie[s]>>] = 1
    /\ voted[<<"A1", lastAction[s].arg>>] = 0

\* a step leaves every cookie that has a value as it is
C3_StepKeepsCookie ==
  \A b \in Browsers, c \in Ids :
    cookie[b][c] # None => cookie'[b][c] = cookie[b][c]

\* C3: a reaction cookie that is set is never overwritten: no step changes a
\* cookie that has a value.
C3_CookieNeverOverwritten == [][C3_StepKeepsCookie]_vars

\* C9: the increment is committed before the cookie is written and the page
\* is rendered after both: the count of (c, t) is at least the number of
\* browsers whose cookie for c is t, a tab about to write the cookie has
\* committed its vote, and the page rendered after a vote shows a count that
\* includes it, with the buttons disabled.
C9_IncrementThenCookieThenRefresh ==
  /\ \A c \in Ids, t \in ReactionTypes :
        Count(<<c, t>>) >= Cardinality({b \in Browsers : cookie[b][c] = t})
  /\ \A s \in Tabs :
        /\ pc[s] = "setcookie" =>
             /\ lastVote[s] # NoVote
             /\ lastVote[s].n >= 1
             /\ Count(VoteKey(s)) >= lastVote[s].n
        /\ (pc[s] = "idle" /\ lastVote[s] # NoVote) =>
             /\ page[s].kind = "profile"
             /\ page[s].cid = lastVote[s].cid
             /\ page[s].disabled
             /\ page[s].labels[lastVote[s].rkey] >= lastVote[s].n
             /\ cookie[browserOf[s]][lastVote[s].cid] # None

\* the page a tab shows after its vote: count 1 on the clicked button, the
\* buttons disabled, the cookie holding the type
C9_Witness ==
  \E s \in Tabs :
    /\ pc[s] = "idle"
    /\ lastVote[s] = [cid |-> "A1", rkey |-> "like", n |-> 1]
    /\ page[s].labels["like"] = 1
    /\ page[s].disabled
    /\ cookie[browserOf[s]]["A1"] = "like"

\* C6: the page loaded without parameters is the list; after "view program"
\* on A the parameters are {view: profile, id: A} and the page is A's profile;
\* after "back" on a profile no parameter is left and the page is the list.
C6_Routing ==
  \A s \in Tabs :
    pc[s] = "idle" =>
      /\ (lastAction[s].kind = "url" /\ qp[s].view # "profile") =>
           page[s].kind = "list" /\ ~page[s].warning
      /\ lastAction[s].kind = "open" =>
           /\ qp[s] = [view |-> "profile", id |-> lastAction[s].arg]
           /\ page[s].kind = "profile"
           /\ page[s].cid = lastAction[s].arg
      /\ (lastAction[s].kind = "back" /\ lastAction[s].arg = "profile") =>
           /\ qp[s] = NoParams
           /\ page[s].kind = "list"
           /\ ~page[s].warning

\* list -> profile -> back: the tab is on the list again, no parameter left
C6_Witness ==
  \E s \in Tabs :
    /\ pc[s] = "idle"
    /\ lastAction[s] = [kind |-> "back", arg |-> "profile", prev |-> "open"]
    /\ qp[s] = NoParams
    /\ page[s] = ListPage({"A1"}, FALSE)

\* the page of the tab answers a profile request without a usable id
MissingId(s) == qp[s].view = "profile" /\ qp[s].id \in {None, ""}

\* C7 as stated: every malformed profile request (id missing, or id unknown)
\* gets a page with an inline error or warning and a back action.
C7_BackOffered ==
  \A s \in Tabs :
    (pc[s] = "idle" /\ (MissingId(s) \/ page[s].kind = "notfound")) =>
       /\ page[s].warning \/ page[s].kind = "notfound"
       /\ page[s].back

\* C7 amended: an unknown id gets the error page with a back action, which
\* clears the parameters and shows the list when clicked while the id is still
\* unknown; a missing or empty id gets the warning followed by the list view
\* itself, without a back action.
C7_MalformedProfile ==
  \A s \in Tabs :
    pc[s] = "idle" =>
      /\ MissingId(s) =>
           page[s].kind = "list" /\ page[s].warning /\ ~page[s].back
      /\ (RoutesToProfile(qp[s]) /\ qp[s].id \notin csv) =>
           page[s].kind = "notfound"
      /\ page[s].kind = "notfound" =>
           RoutesToProfile(qp[s]) /\ page[s].back
      /\ (lastAction[s].kind = "back" /\ lastAction[s].arg = "notfound") =>
           \/ qp[s] = NoParams /\ page[s].kind = "list" /\ ~page[s].warning
           \/ qp[s].id \in csv /\ page[s].kind = "profile"

\* one tab left the error page of an unknown id by its back button, the other
\* shows the warning and the list for a request with an empty id
C7_Witness ==
  \E s, r \in Tabs :
    /\ pc[s] = "idle" /\ pc[r] = "idle"
    /\ lastAction[s] = [kind |-> "back", arg |-> "notfound", prev |-> "url"]
    /\ qp[s] = NoParams
    /\ page[s].kind = "list"
    /\ qp[r] = [view |-> "profile", id |-> ""]
    /\ page[r] = ListPage({"A1"}, TRUE)

\* the candidates that pass every active filter, each filter taken as a
\* literal text
LiteralMatches(rows, f) ==
  {c \in rows :
     /\ Strip(f.q) # <<>> =>
          Contains(Lower(Candidates[c].name \o Candidates[c].id), Lower(Strip(f.q)))
     /\ \A field \in {"building", "floor", "apt"} :
          Strip(f[field]) # <<>> =>
            Contains(Lower(Candidates[c][field]), Lower(Strip(f[field])))}

\* C8: the list view shows exactly the candidates that pass every active
\* filter as a case-insensitive literal substring, and raises no error.
C8_ListShowsLiteralMatches ==
  \A s \in Tabs :
    (pc[s] = "idle" /\ page[s].kind \in {"list", "exception"}) =>
       /\ page[s].kind = "list"
       /\ page[s].cards = LiteralMatches(csv, filters[s])

====
